---- MODULE Spec2Model ----
(***************************************************************************)
(* Control core of the Sony IMX377 V4L2 sensor driver (src/imx377.c):      *)
(* register transport, power sequencing, streaming start/stop, control     *)
(* application and teardown.  The regulator, clock, GPIO, I2C and V4L2     *)
(* control frameworks are modelled by the effect of the calls the driver   *)
(* makes on them.                                                          *)
(***************************************************************************)
EXTENDS Integers, Sequences, FiniteSets, TLC

\* ---- Key sensor registers ----
IMX377_STANDBY == 12288
IMX377_REG_MODE_SELECT == 256
IMX377_REG_GAIN_H == 12297
IMX377_REG_GAIN_L == 12298
IMX377_REG_EXPOSURE_H == 12299
IMX377_REG_EXPOSURE_L == 12300

EIO == 5

\* ---- Control ranges declared in imx377_probe ----
IMX377_GAIN_MAX == 1957

\* ---- Mode table ----
\* the modes a struct imx377_mode pointer can refer to
ModeTable ==
    [imx377_default_mode |->
        [width |-> 4056, height |-> 3040,
         code |-> "MEDIA_BUS_FMT_SRGGB12_1X12",
         hts |-> 370, vts |-> 3250, link_freq |-> 576000000]]

\* ---- Bounds of the model ----
\* largest enable count a power resource is driven to (start_streaming is
\* not offered beyond it)
MaxEnable == 2
\* number of caller threads of the interleaved specification
NumThreads == 2

\* ---- Input domains ----
Regulators == {"dvdd", "avdd", "dovdd"}
Resources == Regulators \cup {"xclk"}
GpioLines == {"reset", "pwdn"}
\* registers whose content in the sensor the model follows
TrackedRegs == {IMX377_REG_MODE_SELECT}
\* results of regulator_enable / clk_prepare_enable: 0 or a negative errno
EnableOutcomes == {0, -16, -110}
\* one outcome per enable call; the calls after a failed one are never made,
\* so plans that differ only there are not listed twice
EnablePlans ==
    {rc \in [Resources -> EnableOutcomes] :
        Cardinality({r \in Resources : rc[r] # 0}) <= 1}
\* results of i2c_master_send for a 3 byte message: bytes moved or -errno
BusOutcomes == {3, 1, -110}
\* control values handed in by the control framework (already in range)
ExposureVals == {1, 256, 4660, 65535}
GainVals == {500, 1957}
ControlIds == {"V4L2_CID_EXPOSURE", "V4L2_CID_ANALOGUE_GAIN"}
ControlVals(id) == IF id = "V4L2_CID_EXPOSURE" THEN ExposureVals ELSE GainVals
Threads == 1..NumThreads
\* geometries (width, height) a caller of set_fmt asks for
ReqFormats == {<<4056, 3040>>, <<1920, 1080>>}
\* bus results tried on a single register write
WriteOutcomes == {-110, -6, 0, 1, 2, 3}
\* register values tried on a single register write
WriteVals == {0, 1, 255}
\* registers the driver writes
Registers == {IMX377_STANDBY, IMX377_REG_MODE_SELECT, IMX377_REG_GAIN_H,
              IMX377_REG_GAIN_L, IMX377_REG_EXPOSURE_H, IMX377_REG_EXPOSURE_L}

VARIABLES
    streaming,   \* priv->streaming
    cur_mode,    \* priv->cur_mode
    lock,        \* priv->lock: 0 when unlocked, else the thread holding it
    reset_gpio,  \* priv->reset_gpio is non-NULL
    pwdn_gpio,   \* priv->pwdn_gpio is non-NULL
    en,          \* enable count of dvdd, avdd, dovdd and xclk
    gpio,        \* level driven on the reset and pwdn lines
    regs,        \* tracked sensor registers: last value that reached the device, -1 if none
    ctrl_cur,    \* current value of each control as kept by the control handler
    removed,     \* imx377_remove has run
    trace,       \* calls on the hardware and stores to priv->streaming made by
                 \* the operation that ran last, in program order
    last,        \* the operation that ran last and its arguments
    ret,         \* value it returned
    pc,          \* interleaved specification: position of each thread
    loc,         \* interleaved specification: locals of each thread
    fmt,         \* struct v4l2_subdev_format of the last get_fmt / set_fmt call
    arg          \* function-level specification: the arguments of the call

vars == <<streaming, cur_mode, lock, reset_gpio, pwdn_gpio, en, gpio, regs,
          ctrl_cur, removed, trace, last, ret, pc, loc, fmt, arg>>

\* ---- Integer helpers ----
RECURSIVE BitOr(_, _)
\* a | b on two's complement ints of any width
BitOr(a, b) ==
    IF a = 0 THEN b
    ELSE IF b = 0 THEN a
    ELSE IF a = -1 \/ b = -1 THEN -1
    ELSE 2 * BitOr(a \div 2, b \div 2)
         + (IF a % 2 = 1 \/ b % 2 = 1 THEN 1 ELSE 0)

\* ---- Hardware record and the calls made on it ----
\* m = [en, gpio, regs, tr]: the part of the state the callees act on
Event(ev, res, buf, val, r) ==
    [ev |-> ev, res |-> res, buf |-> buf, val |-> val, ret |-> r]

\* regulator_enable / clk_prepare_enable returning rc
ResourceEnable(m, r, rc) ==
    [m EXCEPT !.en[r] = IF rc = 0 THEN @ + 1 ELSE @,
              !.tr = Append(@, Event("enable", r, <<>>, m.en[r], rc))]

\* regulator_disable / clk_disable_unprepare: an unbalanced disable warns
\* and leaves the count at 0; val records the count the call found
ResourceDisable(m, r) ==
    [m EXCEPT !.en[r] = IF @ > 0 THEN @ - 1 ELSE 0,
              !.tr = Append(@, Event("disable", r, <<>>, m.en[r], 0))]

gpiod_set_value_cansleep(m, line, v) ==
    [m EXCEPT !.gpio[line] = v,
              !.tr = Append(@, Event("gpio", line, <<>>, v, 0))]

usleep_range(m) ==
    [m EXCEPT !.tr = Append(@, Event("usleep", "", <<>>, 0, 0))]

\* priv->streaming = v
StoreStreaming(m, v) ==
    [m EXCEPT !.tr = Append(@, Event("store_streaming", "", <<>>,
                                    IF v THEN 1 ELSE 0, 0))]

\* i2c_master_send of buf returning sent
i2c_master_send(m, buf, sent) ==
    [m EXCEPT !.regs = IF sent = 3 /\ (buf[1] * 256 + buf[2]) \in TrackedRegs
                       THEN [@ EXCEPT ![buf[1] * 256 + buf[2]] = buf[3]]
                       ELSE @,
              !.tr = Append(@, Event("i2c_master_send", "", buf, 0, sent))]

\* imx377_write_reg that takes any non-negative bus result for success
imx377_write_reg_short_ok(m, reg, val, sent) ==
    LET buf == <<(reg \div 256) % 256, reg % 256, val % 256>>
    IN  [m |-> i2c_master_send(m, buf, sent),
         ret |-> IF sent >= 0 THEN 0 ELSE sent]

imx377_write_reg(m, reg, val, sent) ==
    LET buf == <<(reg \div 256) % 256, reg % 256, val % 256>>
    IN  [m |-> i2c_master_send(m, buf, sent),
         ret |-> IF sent = 3 THEN 0 ELSE IF sent < 0 THEN sent ELSE -EIO]

\* ---- Power management ----
\* the GPIO part of imx377_power_on without the tests for absent lines
PowerOnGpio_unconditional(m, rst, pwdn) ==
    usleep_range(gpiod_set_value_cansleep(
        gpiod_set_value_cansleep(m, "reset", 1), "pwdn", 0))

PowerOnGpio(m, rst, pwdn) ==
    LET m1 == IF rst THEN gpiod_set_value_cansleep(m, "reset", 1) ELSE m
        m2 == IF pwdn THEN gpiod_set_value_cansleep(m1, "pwdn", 0) ELSE m1
    IN  usleep_range(m2)

\* imx377_power_on whose clock failure jumps to disable_avdd
imx377_power_on_skip_dovdd(m, rst, pwdn, rc) ==
    LET m1 == ResourceEnable(m, "dvdd", rc["dvdd"])
        m2 == ResourceEnable(m1, "avdd", rc["avdd"])
        m3 == ResourceEnable(m2, "dovdd", rc["dovdd"])
        m4 == ResourceEnable(m3, "xclk", rc["xclk"])
    IN  IF rc["dvdd"] # 0 THEN [m |-> m1, ret |-> rc["dvdd"]]
        ELSE IF rc["avdd"] # 0
        THEN [m |-> ResourceDisable(m2, "dvdd"), ret |-> rc["avdd"]]
        ELSE IF rc["dovdd"] # 0
        THEN [m |-> ResourceDisable(ResourceDisable(m3, "avdd"), "dvdd"),
              ret |-> rc["dovdd"]]
        ELSE IF rc["xclk"] # 0
        THEN [m |-> ResourceDisable(ResourceDisable(m4, "avdd"), "dvdd"),
              ret |-> rc["xclk"]]
        ELSE [m |-> PowerOnGpio(m4, rst, pwdn), ret |-> 0]

\* rc[r]: what the enable call of resource r returns if it is made
imx377_power_on(m, rst, pwdn, rc) ==
    LET m1 == ResourceEnable(m, "dvdd", rc["dvdd"])
        m2 == ResourceEnable(m1, "avdd", rc["avdd"])
        m3 == ResourceEnable(m2, "dovdd", rc["dovdd"])
        m4 == ResourceEnable(m3, "xclk", rc["xclk"])
    IN  IF rc["dvdd"] # 0 THEN [m |-> m1, ret |-> rc["dvdd"]]
        ELSE IF rc["avdd"] # 0
        THEN [m |-> ResourceDisable(m2, "dvdd"), ret |-> rc["avdd"]]
        ELSE IF rc["dovdd"] # 0
        THEN [m |-> ResourceDisable(ResourceDisable(m3, "avdd"), "dvdd"),
              ret |-> rc["dovdd"]]
        ELSE IF rc["xclk"] # 0
        THEN [m |-> ResourceDisable(ResourceDisable(
                        ResourceDisable(m4, "dovdd"), "avdd"), "dvdd"),
              ret |-> rc["xclk"]]
        ELSE [m |-> PowerOnGpio(m4, rst, pwdn), ret |-> 0]

PowerOffGpio(m, rst, pwdn) ==
    LET m1 == IF rst THEN gpiod_set_value_cansleep(m, "reset", 0) ELSE m
    IN  IF pwdn THEN gpiod_set_value_cansleep(m1, "pwdn", 1) ELSE m1

\* imx377_power_off that disables the rails in the order they were enabled
imx377_power_off_enable_order(m, rst, pwdn) ==
    ResourceDisable(ResourceDisable(ResourceDisable(ResourceDisable(
        PowerOffGpio(m, rst, pwdn), "xclk"), "dvdd"), "avdd"), "dovdd")

imx377_power_off(m, rst, pwdn) ==
    ResourceDisable(ResourceDisable(ResourceDisable(ResourceDisable(
        PowerOffGpio(m, rst, pwdn), "xclk"), "dovdd"), "avdd"), "dvdd")

\* ---- Streaming ----
\* result: [m, ret, streaming]
\* imx377_start_streaming that sets the flag before testing the mode-select write
imx377_start_streaming_flag_early(m, strm, rst, pwdn, rc, sent1, sent2) ==
    LET p == imx377_power_on(m, rst, pwdn, rc)
        w1 == imx377_write_reg(p.m, IMX377_STANDBY, 0, sent1)
        w2 == imx377_write_reg(w1.m, IMX377_REG_MODE_SELECT, 1, sent2)
    IN  IF p.ret # 0 THEN [m |-> p.m, ret |-> p.ret, streaming |-> strm]
        ELSE IF w1.ret # 0
        THEN [m |-> imx377_power_off(w1.m, rst, pwdn), ret |-> w1.ret,
              streaming |-> strm]
        ELSE IF w2.ret # 0
        THEN [m |-> imx377_power_off(StoreStreaming(w2.m, TRUE), rst, pwdn),
              ret |-> w2.ret, streaming |-> TRUE]
        ELSE [m |-> StoreStreaming(w2.m, TRUE), ret |-> 0, streaming |-> TRUE]

\* imx377_start_streaming that goes to err_power also when imx377_power_on fails
imx377_start_streaming_always_power_off(m, strm, rst, pwdn, rc, sent1, sent2) ==
    LET p == imx377_power_on(m, rst, pwdn, rc)
        w1 == imx377_write_reg(p.m, IMX377_STANDBY, 0, sent1)
        w2 == imx377_write_reg(w1.m, IMX377_REG_MODE_SELECT, 1, sent2)
    IN  IF p.ret # 0
        THEN [m |-> imx377_power_off(p.m, rst, pwdn), ret |-> p.ret,
              streaming |-> strm]
        ELSE IF w1.ret # 0
        THEN [m |-> imx377_power_off(w1.m, rst, pwdn), ret |-> w1.ret,
              streaming |-> strm]
        ELSE IF w2.ret # 0
        THEN [m |-> imx377_power_off(w2.m, rst, pwdn), ret |-> w2.ret,
              streaming |-> strm]
        ELSE [m |-> StoreStreaming(w2.m, TRUE), ret |-> 0, streaming |-> TRUE]

imx377_start_streaming(m, strm, rst, pwdn, rc, sent1, sent2) ==
    LET p == imx377_power_on(m, rst, pwdn, rc)
        w1 == imx377_write_reg(p.m, IMX377_STANDBY, 0, sent1)
        w2 == imx377_write_reg(w1.m, IMX377_REG_MODE_SELECT, 1, sent2)
    IN  IF p.ret # 0 THEN [m |-> p.m, ret |-> p.ret, streaming |-> strm]
        ELSE IF w1.ret # 0
        THEN [m |-> imx377_power_off(w1.m, rst, pwdn), ret |-> w1.ret,
              streaming |-> strm]
        ELSE IF w2.ret # 0
        THEN [m |-> imx377_power_off(w2.m, rst, pwdn), ret |-> w2.ret,
              streaming |-> strm]
        ELSE [m |-> StoreStreaming(w2.m, TRUE), ret |-> 0, streaming |-> TRUE]

\* imx377_stop_streaming that returns at once when its register write fails
imx377_stop_streaming_return_on_error(m, rst, pwdn, sent) ==
    LET w == imx377_write_reg(m, IMX377_REG_MODE_SELECT, 0, sent)
    IN  IF w.ret # 0 THEN [m |-> w.m, ret |-> w.ret, streaming |-> FALSE]
        ELSE [m |-> imx377_power_off(StoreStreaming(w.m, FALSE), rst, pwdn),
              ret |-> w.ret, streaming |-> FALSE]

imx377_stop_streaming(m, rst, pwdn, sent) ==
    LET w == imx377_write_reg(m, IMX377_REG_MODE_SELECT, 0, sent)
    IN  [m |-> imx377_power_off(StoreStreaming(w.m, FALSE), rst, pwdn),
         ret |-> w.ret, streaming |-> FALSE]

\* ---- Control operations ----
CtrlRegH(id) ==
    IF id = "V4L2_CID_EXPOSURE" THEN IMX377_REG_EXPOSURE_H ELSE IMX377_REG_GAIN_H
CtrlRegL(id) ==
    IF id = "V4L2_CID_EXPOSURE" THEN IMX377_REG_EXPOSURE_L ELSE IMX377_REG_GAIN_L
\* high byte with the gain masked by 0x03 instead of 0x07
CtrlValH_mask3(id, val) ==
    IF id = "V4L2_CID_EXPOSURE" THEN (val \div 256) % 256 ELSE (val \div 256) % 4

\* (val >> 8) & 0xFF for exposure, (val >> 8) & 0x07 for gain
CtrlValH(id, val) ==
    IF id = "V4L2_CID_EXPOSURE" THEN (val \div 256) % 256 ELSE (val \div 256) % 8
\* val & 0xFF
CtrlValL(id, val) == val % 256

\* imx377_set_ctrl without the streaming test
imx377_set_ctrl_nocheck(m, strm, id, val, sent1, sent2) ==
    LET w1 == imx377_write_reg(m, CtrlRegH(id), CtrlValH(id, val), sent1)
        w2 == imx377_write_reg(w1.m, CtrlRegL(id), CtrlValL(id, val), sent2)
    IN  [m |-> w2.m, ret |-> BitOr(w1.ret, w2.ret)]

\* imx377_set_ctrl that returns as soon as the high-byte write fails
imx377_set_ctrl_shortcircuit(m, strm, id, val, sent1, sent2) ==
    LET w1 == imx377_write_reg(m, CtrlRegH(id), CtrlValH(id, val), sent1)
        w2 == imx377_write_reg(w1.m, CtrlRegL(id), CtrlValL(id, val), sent2)
    IN  IF ~strm THEN [m |-> m, ret |-> 0]
        ELSE IF w1.ret # 0 THEN w1
        ELSE [m |-> w2.m, ret |-> BitOr(w1.ret, w2.ret)]

imx377_set_ctrl(m, strm, id, val, sent1, sent2) ==
    LET w1 == imx377_write_reg(m, CtrlRegH(id), CtrlValH(id, val), sent1)
        w2 == imx377_write_reg(w1.m, CtrlRegL(id), CtrlValL(id, val), sent2)
    IN  IF ~strm THEN [m |-> m, ret |-> 0]
        ELSE [m |-> w2.m, ret |-> BitOr(w1.ret, w2.ret)]

\* ---- Subdev pad operations ----
\* mode: priv->cur_mode; result: [m, ret, format]
imx377_get_fmt(m, mode) ==
    [m |-> m, ret |-> 0,
     format |-> [code |-> ModeTable[mode].code,
                 width |-> ModeTable[mode].width,
                 height |-> ModeTable[mode].height,
                 field |-> "V4L2_FIELD_NONE",
                 colorspace |-> "V4L2_COLORSPACE_RAW"]]

\* imx377_set_fmt that leaves the requested geometry in the format
imx377_set_fmt_keep_request(m, mode, req) ==
    LET g == imx377_get_fmt(m, "imx377_default_mode")
    IN  [m |-> g.m, ret |-> g.ret,
         format |-> [g.format EXCEPT !.width = req[1], !.height = req[2]],
         cur_mode |-> "imx377_default_mode"]

\* imx377_set_fmt that also puts the sensor in standby over the bus
imx377_set_fmt_bus_write(m, mode, req) ==
    LET w == imx377_write_reg(m, IMX377_STANDBY, 0, 3)
        g == imx377_get_fmt(w.m, "imx377_default_mode")
    IN  [m |-> g.m, ret |-> g.ret, format |-> g.format,
         cur_mode |-> "imx377_default_mode"]

\* req: the geometry of the format handed in; result: [m, ret, format, cur_mode]
imx377_set_fmt(m, mode, req) ==
    LET g == imx377_get_fmt(m, "imx377_default_mode")
    IN  [m |-> g.m, ret |-> g.ret, format |-> g.format,
         cur_mode |-> "imx377_default_mode"]

\* ---- State after imx377_probe ----
HwNow == [en |-> en, gpio |-> gpio, regs |-> regs, tr |-> <<>>]
NoOp == [op |-> "probe", id |-> "", val |-> 0]
NoLoc == [ret |-> 0, id |-> "", val |-> 0]
\* req: the geometry the caller asked for; format: what the driver filled in
NoFmt == [req |-> <<0, 0>>,
          format |-> [code |-> "", width |-> 0, height |-> 0,
                      field |-> "", colorspace |-> ""]]
NoArg == [fn |-> "none", reg |-> 0, val |-> 0, sent |-> 0]

InitDriver ==
    /\ streaming = FALSE
    /\ cur_mode = "imx377_default_mode"
    /\ lock = 0
    /\ reset_gpio \in BOOLEAN
    /\ pwdn_gpio \in BOOLEAN
    /\ en = [r \in Resources |-> 0]
    /\ gpio = [l \in GpioLines |-> IF l = "reset" THEN 0 ELSE 1]
    /\ regs = [a \in TrackedRegs |-> -1]
    /\ ctrl_cur = [id \in ControlIds |->
                     IF id = "V4L2_CID_EXPOSURE" THEN 1000 ELSE 0]
    /\ removed = FALSE
    /\ trace = <<>>
    /\ last = NoOp
    /\ ret = 0
    /\ pc = [t \in Threads |-> "idle"]
    /\ loc = [t \in Threads |-> NoLoc]
    /\ fmt = NoFmt

Init ==
    /\ InitDriver
    /\ arg = NoArg

\* ---- Operations, one call at a time ----
Commit(r) ==
    /\ en' = r.m.en
    /\ gpio' = r.m.gpio
    /\ regs' = r.m.regs
    /\ trace' = r.m.tr
    /\ ret' = r.ret
    /\ fmt' = NoFmt

StartStreaming ==
    /\ ~removed
    /\ \A r \in Resources : en[r] < MaxEnable
    /\ \E rc \in EnablePlans, sent1, sent2 \in BusOutcomes :
         LET r == imx377_start_streaming(HwNow, streaming, reset_gpio,
                                         pwdn_gpio, rc, sent1, sent2)
         IN  /\ Commit(r)
             /\ streaming' = r.streaming
    /\ last' = [op |-> "start_streaming", id |-> "", val |-> 0]
    /\ UNCHANGED <<cur_mode, lock, reset_gpio, pwdn_gpio, ctrl_cur, removed,
                   pc, loc, arg>>

StopStreaming ==
    /\ ~removed
    /\ \E sent \in BusOutcomes :
         LET r == imx377_stop_streaming(HwNow, reset_gpio, pwdn_gpio, sent)
         IN  /\ Commit(r)
             /\ streaming' = r.streaming
    /\ last' = [op |-> "stop_streaming", id |-> "", val |-> 0]
    /\ UNCHANGED <<cur_mode, lock, reset_gpio, pwdn_gpio, ctrl_cur, removed,
                   pc, loc, arg>>

\* the control handler calls s_ctrl with the new value in ctrl->val and
\* makes it the current value when s_ctrl returns 0
SetCtrl ==
    /\ ~removed
    /\ \E id \in ControlIds : \E val \in ControlVals(id) :
       \E sent1, sent2 \in BusOutcomes :
         LET r == imx377_set_ctrl(HwNow, streaming, id, val, sent1, sent2)
         IN  /\ Commit(r)
             /\ ctrl_cur' = IF r.ret = 0 THEN [ctrl_cur EXCEPT ![id] = val]
                            ELSE ctrl_cur
             /\ last' = [op |-> "set_ctrl", id |-> id, val |-> val]
    /\ UNCHANGED <<streaming, cur_mode, lock, reset_gpio, pwdn_gpio, removed,
                   pc, loc, arg>>

\* imx377_remove: unregisters the subdev and frees the control handler
Remove ==
    /\ ~removed
    /\ removed' = TRUE
    /\ trace' = <<>>
    /\ ret' = 0
    /\ last' = [op |-> "remove", id |-> "", val |-> 0]
    /\ fmt' = NoFmt
    /\ UNCHANGED <<streaming, cur_mode, lock, reset_gpio, pwdn_gpio, en, gpio,
                   regs, ctrl_cur, pc, loc, arg>>

GetFmt ==
    /\ ~removed
    /\ LET r == imx377_get_fmt(HwNow, cur_mode)
       IN  /\ en' = r.m.en
           /\ gpio' = r.m.gpio
           /\ regs' = r.m.regs
           /\ trace' = r.m.tr
           /\ ret' = r.ret
           /\ fmt' = [req |-> <<0, 0>>, format |-> r.format]
    /\ last' = [op |-> "get_fmt", id |-> "", val |-> 0]
    /\ UNCHANGED <<streaming, cur_mode, lock, reset_gpio, pwdn_gpio, ctrl_cur,
                   removed, pc, loc, arg>>

SetFmt ==
    /\ ~removed
    /\ \E req \in ReqFormats :
         LET r == imx377_set_fmt(HwNow, cur_mode, req)
         IN  /\ en' = r.m.en
             /\ gpio' = r.m.gpio
             /\ regs' = r.m.regs
             /\ trace' = r.m.tr
             /\ ret' = r.ret
             /\ cur_mode' = r.cur_mode
             /\ fmt' = [req |-> req, format |-> r.format]
    /\ last' = [op |-> "set_fmt", id |-> "", val |-> 0]
    /\ UNCHANGED <<streaming, lock, reset_gpio, pwdn_gpio, ctrl_cur, removed,
                   pc, loc, arg>>

Next ==
    \/ StartStreaming
    \/ StopStreaming
    \/ SetCtrl
    \/ Remove
    \/ GetFmt
    \/ SetFmt

Spec == Init /\ [][Next]_vars

\* ---- Single functions applied to chosen arguments ----
\* arg names the function and its arguments; the call is made once, on the
\* device as imx377_probe left it
FnArgs ==
    {[fn |-> "gain_encode", reg |-> 0, val |-> g, sent |-> 3] :
        g \in 0..IMX377_GAIN_MAX}
    \cup {[fn |-> "write_reg", reg |-> a, val |-> v, sent |-> x] :
            a \in Registers, v \in WriteVals, x \in WriteOutcomes}

InitFn ==
    /\ InitDriver
    /\ arg \in FnArgs

FnFixed == <<streaming, cur_mode, lock, reset_gpio, pwdn_gpio, ctrl_cur,
             removed, pc, loc, arg>>

\* imx377_write_reg(client, arg.reg, arg.val) with the bus returning arg.sent
CallWriteReg ==
    /\ arg.fn = "write_reg"
    /\ last.op = "probe"
    /\ Commit(imx377_write_reg(HwNow, arg.reg, arg.val, arg.sent))
    /\ last' = [op |-> "write_reg", id |-> "", val |-> arg.val]
    /\ UNCHANGED FnFixed

\* the V4L2_CID_ANALOGUE_GAIN case of imx377_set_ctrl with ctrl->val = arg.val
CallGainEncode ==
    /\ arg.fn = "gain_encode"
    /\ last.op = "probe"
    /\ Commit(imx377_set_ctrl(HwNow, TRUE, "V4L2_CID_ANALOGUE_GAIN", arg.val,
                              arg.sent, arg.sent))
    /\ last' = [op |-> "gain_encode", id |-> "V4L2_CID_ANALOGUE_GAIN",
                val |-> arg.val]
    /\ UNCHANGED FnFixed

FnNext ==
    \/ CallWriteReg
    \/ CallGainEncode

SpecFn == InitFn /\ [][FnNext]_vars

\* ---- Operations called from independent threads ----
\* No function of the driver takes priv->lock, so calls from different
\* threads interleave between the statements of each function.  A thread
\* takes one step per statement; pc[t] names the statement it executes next.
StartLabels == {"start_power_on", "start_standby", "start_mode",
                "start_flag", "start_err_power"}
StopLabels == {"stop_write", "stop_flag", "stop_power_off"}
CtrlLabels == {"ctrl_check", "ctrl_write_h", "ctrl_write_l"}

THw(m) ==
    /\ en' = m.en
    /\ gpio' = m.gpio
    /\ regs' = m.regs

Goto(t, lbl) == pc' = [pc EXCEPT ![t] = lbl]
SetRet(t, r) == loc' = [loc EXCEPT ![t].ret = r]
Return(t) ==
    /\ pc' = [pc EXCEPT ![t] = "idle"]
    /\ loc' = [loc EXCEPT ![t] = NoLoc]

TFixed == <<cur_mode, lock, reset_gpio, pwdn_gpio, ctrl_cur, removed, trace,
            last, ret, fmt, arg>>

TCallStart(t) ==
    /\ pc[t] = "idle"
    /\ \A r \in Resources :
         en[r] + Cardinality({u \in Threads : pc[u] \in StartLabels}) < MaxEnable
    /\ Goto(t, "start_power_on")
    /\ UNCHANGED <<streaming, en, gpio, regs, loc, TFixed>>

\* ret = imx377_power_on(priv); if (ret) return ret;
TStartPowerOn(t) ==
    /\ pc[t] = "start_power_on"
    /\ \E rc \in EnablePlans :
         LET p == imx377_power_on(HwNow, reset_gpio, pwdn_gpio, rc)
         IN  /\ THw(p.m)
             /\ IF p.ret # 0 THEN Return(t)
                ELSE Goto(t, "start_standby") /\ SetRet(t, 0)
    /\ UNCHANGED <<streaming, TFixed>>

\* ret = imx377_write_reg(IMX377_STANDBY, 0x00); if (ret) goto err_power;
TStartStandby(t) ==
    /\ pc[t] = "start_standby"
    /\ \E sent \in BusOutcomes :
         LET w == imx377_write_reg(HwNow, IMX377_STANDBY, 0, sent)
         IN  /\ THw(w.m)
             /\ SetRet(t, w.ret)
             /\ Goto(t, IF w.ret # 0 THEN "start_err_power" ELSE "start_mode")
    /\ UNCHANGED <<streaming, TFixed>>

\* ret = imx377_write_reg(IMX377_REG_MODE_SELECT, 0x01); if (ret) goto err_power;
TStartMode(t) ==
    /\ pc[t] = "start_mode"
    /\ \E sent \in BusOutcomes :
         LET w == imx377_write_reg(HwNow, IMX377_REG_MODE_SELECT, 1, sent)
         IN  /\ THw(w.m)
             /\ SetRet(t, w.ret)
             /\ Goto(t, IF w.ret # 0 THEN "start_err_power" ELSE "start_flag")
    /\ UNCHANGED <<streaming, TFixed>>

\* priv->streaming = true; return 0;
TStartFlag(t) ==
    /\ pc[t] = "start_flag"
    /\ streaming' = TRUE
    /\ Return(t)
    /\ UNCHANGED <<en, gpio, regs, TFixed>>

\* err_power: imx377_power_off(priv); return ret;
TStartErrPower(t) ==
    /\ pc[t] = "start_err_power"
    /\ THw(imx377_power_off(HwNow, reset_gpio, pwdn_gpio))
    /\ Return(t)
    /\ UNCHANGED <<streaming, TFixed>>

TCallStop(t) ==
    /\ pc[t] = "idle"
    /\ Goto(t, "stop_write")
    /\ UNCHANGED <<streaming, en, gpio, regs, loc, TFixed>>

\* int ret = imx377_write_reg(IMX377_REG_MODE_SELECT, 0x00);
TStopWrite(t) ==
    /\ pc[t] = "stop_write"
    /\ \E sent \in BusOutcomes :
         LET w == imx377_write_reg(HwNow, IMX377_REG_MODE_SELECT, 0, sent)
         IN  /\ THw(w.m)
             /\ SetRet(t, w.ret)
    /\ Goto(t, "stop_flag")
    /\ UNCHANGED <<streaming, TFixed>>

\* priv->streaming = false;
TStopFlag(t) ==
    /\ pc[t] = "stop_flag"
    /\ streaming' = FALSE
    /\ Goto(t, "stop_power_off")
    /\ UNCHANGED <<en, gpio, regs, loc, TFixed>>

\* imx377_power_off(priv); return ret;
TStopPowerOff(t) ==
    /\ pc[t] = "stop_power_off"
    /\ THw(imx377_power_off(HwNow, reset_gpio, pwdn_gpio))
    /\ Return(t)
    /\ UNCHANGED <<streaming, TFixed>>

\* the control handler calls s_ctrl under its own mutex (not priv->lock),
\* so two s_ctrl calls never overlap
TCallCtrl(t) ==
    /\ pc[t] = "idle"
    /\ \A u \in Threads : pc[u] \notin CtrlLabels
    /\ \E id \in ControlIds : \E val \in ControlVals(id) :
         loc' = [loc EXCEPT ![t] = [ret |-> 0, id |-> id, val |-> val]]
    /\ Goto(t, "ctrl_check")
    /\ UNCHANGED <<streaming, en, gpio, regs, TFixed>>

\* if (!priv->streaming) return 0;
TCtrlCheck(t) ==
    /\ pc[t] = "ctrl_check"
    /\ IF ~streaming THEN Return(t)
       ELSE Goto(t, "ctrl_write_h") /\ UNCHANGED loc
    /\ UNCHANGED <<streaming, en, gpio, regs, TFixed>>

\* ret = imx377_write_reg(client, REG_H, ...);
TCtrlWriteH(t) ==
    /\ pc[t] = "ctrl_write_h"
    /\ \E sent \in BusOutcomes :
         LET w == imx377_write_reg(HwNow, CtrlRegH(loc[t].id),
                                   CtrlValH(loc[t].id, loc[t].val), sent)
         IN  /\ THw(w.m)
             /\ SetRet(t, w.ret)
    /\ Goto(t, "ctrl_write_l")
    /\ UNCHANGED <<streaming, TFixed>>

\* ret |= imx377_write_reg(client, REG_L, ...); return ret;
TCtrlWriteL(t) ==
    /\ pc[t] = "ctrl_write_l"
    /\ \E sent \in BusOutcomes :
         LET w == imx377_write_reg(HwNow, CtrlRegL(loc[t].id),
                                   CtrlValL(loc[t].id, loc[t].val), sent)
         IN  THw(w.m)
    /\ Return(t)
    /\ UNCHANGED <<streaming, TFixed>>

ThreadNext ==
    \E t \in Threads :
        \/ TCallStart(t)
        \/ TStartPowerOn(t)
        \/ TStartStandby(t)
        \/ TStartMode(t)
        \/ TStartFlag(t)
        \/ TStartErrPower(t)
        \/ TCallStop(t)
        \/ TStopWrite(t)
        \/ TStopFlag(t)
        \/ TStopPowerOff(t)
        \/ TCallCtrl(t)
        \/ TCtrlCheck(t)
        \/ TCtrlWriteH(t)
        \/ TCtrlWriteL(t)

SpecThreads == Init /\ [][ThreadNext]_vars

\* ======================================================================
\* Properties
\* ======================================================================
AllOff == \A r \in Resources : en[r] = 0
AllOn == \A r \in Resources : en[r] > 0
\* order in which imx377_power_on enables the resources
PowerOnOrder == <<"dvdd", "avdd", "dovdd", "xclk">>
\* what imx377_write_reg returns for the bus result recorded in event e
WriteRet(e) == IF e.ret = 3 THEN 0 ELSE IF e.ret < 0 THEN e.ret ELSE -5

\* C1: every start_streaming that returns an error leaves the device Idle
\* (streaming flag false) with dvdd, avdd, dovdd and the clock disabled.
C1_FailedStartLeavesIdleOff ==
    (last.op = "start_streaming" /\ ret # 0) => (~streaming /\ AllOff)

\* C2: after any stop_streaming, whatever the outcome of its register
\* write, the streaming flag is false and every power resource is disabled.
C2_StopLeavesPoweredOff ==
    last.op = "stop_streaming" => (~streaming /\ AllOff)

\* C3: when the k-th enable of power_on fails, the call returns that error
\* and its hardware calls are exactly: enable 1..k (the k-th failing), then
\* disable k-1..1 in reverse order; every enable count is back at the value
\* the call found.
FailedEnableAt(k) ==
    /\ last.op = "start_streaming"
    /\ Len(trace) >= k
    /\ trace[k].ev = "enable"
    /\ trace[k].ret # 0
C3_PowerOnRollback ==
    \A k \in 1..4 :
        FailedEnableAt(k) =>
            /\ ret = trace[k].ret
            /\ Len(trace) = 2 * k - 1
            /\ \A i \in 1..k :
                 /\ trace[i].ev = "enable"
                 /\ trace[i].res = PowerOnOrder[i]
                 /\ i < k => trace[i].ret = 0
                 /\ en[PowerOnOrder[i]] = trace[i].val
            /\ \A j \in 1..(k - 1) :
                 /\ trace[k + j].ev = "disable"
                 /\ trace[k + j].res = PowerOnOrder[k - j]
                 /\ trace[k + j].val > 0
C3_Witness_ClockFailureRolledBack ==
    /\ FailedEnableAt(4)
    /\ Len(trace) = 7
    /\ trace[5].res = "dovdd"
    /\ ret = trace[4].ret
    /\ AllOff

\* C4: power_off on a sequencer that is already off (or called twice in a
\* row) issues no disable call for a resource that is already disabled:
\* no operation records a disable of a resource whose enable count is 0.
C4_NoDisableOfDisabledResource ==
    \A i \in 1..Len(trace) : trace[i].ev = "disable" => trace[i].val > 0

\* C5: between operations the device is Idle exactly when all power
\* resources are disabled, and Streaming exactly when all of them are
\* enabled and the mode-select register holds 0x01.
C5_StreamingAgreesWithPower ==
    /\ ~streaming <=> AllOff
    /\ streaming <=> (AllOn /\ regs[IMX377_REG_MODE_SELECT] = 1)

\* C6: start_streaming, stop_streaming and set_control of different threads
\* exclude each other for their full duration (each runs holding the device
\* lock), so set_control never is about to write a register, having read
\* the streaming flag as true, when the flag has been cleared meanwhile.
C6_OperationsSerialized ==
    /\ \A t \in Threads : pc[t] # "idle" => lock = t
    /\ \A t, u \in Threads : t # u => (pc[t] = "idle" \/ pc[u] = "idle")
    /\ \A t \in Threads :
         pc[t] \in {"ctrl_write_h", "ctrl_write_l"} => streaming

\* C7: set_control of gain or exposure on a device that is not Streaming
\* returns 0, issues no register write, leaves the streaming flag and the
\* power state as they were, and the stored control value becomes the
\* given value.
C7_DeferredControl ==
    [][(last'.op = "set_ctrl" /\ ~streaming) =>
          /\ ret' = 0
          /\ trace' = <<>>
          /\ streaming' = streaming
          /\ en' = en
          /\ gpio' = gpio
          /\ regs' = regs
          /\ ctrl_cur'[last'.id] = last'.val]_vars
C7_Witness_GainDeferredWhileIdle ==
    /\ last = [op |-> "set_ctrl", id |-> "V4L2_CID_ANALOGUE_GAIN", val |-> 500]
    /\ ~streaming
    /\ trace = <<>>
    /\ ret = 0
    /\ ctrl_cur["V4L2_CID_ANALOGUE_GAIN"] = 500

\* C8: set_control(Exposure, v) on a Streaming device issues exactly two
\* register writes, in order: (v >> 8) & 0xFF to 0x300B, then v & 0xFF to
\* 0x300C; the second is issued also when the first fails.
C8_ExposureTwoWrites ==
    [][(last'.op = "set_ctrl" /\ last'.id = "V4L2_CID_EXPOSURE"
        /\ streaming) =>
          /\ Len(trace') = 2
          /\ trace'[1].ev = "i2c_master_send"
          /\ trace'[1].buf = <<48, 11, (last'.val \div 256) % 256>>
          /\ trace'[2].ev = "i2c_master_send"
          /\ trace'[2].buf = <<48, 12, last'.val % 256>>]_vars
C8_Witness_LowWrittenAfterHighFailed ==
    /\ last = [op |-> "set_ctrl", id |-> "V4L2_CID_EXPOSURE", val |-> 256]
    /\ streaming
    /\ Len(trace) = 2
    /\ trace[1].buf = <<48, 11, 1>>
    /\ trace[1].ret # 3
    /\ trace[2].buf = <<48, 12, 0>>

\* C9: on a Streaming device set_control returns the error of the first of
\* its two register writes that failed, and 0 only when both succeed.
C9_FirstFailureReturned ==
    (last.op = "set_ctrl" /\ Len(trace) = 2) =>
        ret = IF WriteRet(trace[1]) # 0 THEN WriteRet(trace[1])
              ELSE WriteRet(trace[2])

\* C10: once remove has run the device is fully powered off: streaming
\* flag false, clock and all rails disabled.
C10_RemoveLeavesPoweredOff ==
    removed => (~streaming /\ AllOff)

\* C11: over any sequence of start_streaming and stop_streaming calls the
\* enables and disables of each power resource stay balanced: no disable is
\* issued for a resource whose enable count is 0, and whenever the device is
\* Idle every successful enable has been matched by a disable (count 0).
C11_EnableDisableBalanced ==
    /\ \A i \in 1..Len(trace) :
         (trace[i].ev = "disable" /\ last.op \in {"start_streaming", "stop_streaming"})
             => trace[i].val >= 1
    /\ \A r \in Resources : ~streaming => en[r] = 0

\* C12: set_format with any requested geometry returns the default Mode
\* (4056x3040, SRGGB12), every get_format returns that same Mode, and the
\* current Mode always is the default Mode.
C12_FormatStability ==
    /\ cur_mode = "imx377_default_mode"
    /\ last.op \in {"set_fmt", "get_fmt"} =>
         /\ ret = 0
         /\ fmt.format.width = 4056
         /\ fmt.format.height = 3040
         /\ fmt.format.code = "MEDIA_BUS_FMT_SRGGB12_1X12"
C12_Witness_OtherGeometryRequested ==
    /\ last.op = "set_fmt"
    /\ fmt.req = <<1920, 1080>>
    /\ fmt.format.width = 4056
    /\ fmt.format.height = 3040
    /\ streaming

\* C20: get_format and set_format, in any state, issue no bus transaction
\* and no enable or disable of a power resource and leave the streaming
\* flag unchanged; of the device state they write at most the current mode.
C20_FormatOpsTouchOnlyMode ==
    [][last'.op \in {"get_fmt", "set_fmt"} =>
          /\ trace' = <<>>
          /\ streaming' = streaming
          /\ en' = en
          /\ gpio' = gpio
          /\ regs' = regs
          /\ ctrl_cur' = ctrl_cur
          /\ removed' = removed
          /\ lock' = lock]_vars
C20_Witness_SetFmtWhileStreaming ==
    /\ last.op = "set_fmt"
    /\ streaming
    /\ AllOn
    /\ trace = <<>>
    /\ fmt.req = <<4056, 3040>>

\* C13: for every gain g in 0..0x7A5 the two values set_control writes to
\* the gain registers, high = (g >> 8) & 0x07 to 0x3009 and low = g & 0xFF
\* to 0x300A, decode back to g as (high << 8) | low.
C13_GainRoundTrip ==
    last.op = "gain_encode" =>
        /\ Len(trace) = 2
        /\ trace[1].buf[1] * 256 + trace[1].buf[2] = 12297
        /\ trace[2].buf[1] * 256 + trace[2].buf[2] = 12298
        /\ BitOr(trace[1].buf[3] * 256, trace[2].buf[3]) = arg.val
C13_Witness_MaxGainEncoded ==
    /\ last.op = "gain_encode"
    /\ arg.val = 1957
    /\ trace[1].buf[3] = 7
    /\ trace[2].buf[3] = 165

\* C14: a register write issues exactly one bus transaction carrying
\* [addr_hi, addr_lo, value], without retry, and returns 0 when all 3 bytes
\* moved, -EIO when the bus moved fewer (a count in 0..2), and the bus
\* error code unchanged when the bus returned a negative code.
C14_WriteRegOneTransaction ==
    last.op = "write_reg" =>
        /\ Len(trace) = 1
        /\ trace[1].ev = "i2c_master_send"
        /\ trace[1].buf = <<arg.reg \div 256, arg.reg % 256, arg.val>>
        /\ ret = IF arg.sent = 3 THEN 0
                 ELSE IF arg.sent >= 0 THEN -5
                 ELSE arg.sent
C14_Witness_ShortTransfer ==
    /\ last.op = "write_reg"
    /\ arg.sent = 2
    /\ arg.reg = 12299
    /\ Len(trace) = 1
    /\ ret = -5

\* number of GPIO lines the device has
NumGpio == (IF reset_gpio THEN 1 ELSE 0) + (IF pwdn_gpio THEN 1 ELSE 0)
\* the last operation was a start_streaming whose power_on succeeded
PowerOnOk ==
    /\ last.op = "start_streaming"
    /\ Len(trace) >= 4
    /\ trace[4].ev = "enable"
    /\ trace[4].ret = 0
IsSend(e) == e.ev = "i2c_master_send"

\* C15: a successful power_on enables dvdd, avdd, dovdd and the clock in
\* this order, then drives the reset and the power-down line (only those
\* present), then waits, and only then returns; no line is driven before
\* the clock is enabled and an absent line is never driven.
C15_PowerOnSequence ==
    /\ PowerOnOk =>
         /\ \A i \in 1..4 :
              /\ trace[i].ev = "enable"
              /\ trace[i].res = PowerOnOrder[i]
              /\ trace[i].ret = 0
         /\ Len(trace) >= 5 + NumGpio
         /\ \A i \in 5..(4 + NumGpio) : trace[i].ev = "gpio"
         /\ reset_gpio => trace[5].res = "reset"
         /\ pwdn_gpio => trace[4 + NumGpio].res = "pwdn"
         /\ trace[5 + NumGpio].ev = "usleep"
         /\ \A i \in (6 + NumGpio)..Len(trace) : trace[i].ev # "usleep"
         /\ Len(trace) > 5 + NumGpio => IsSend(trace[6 + NumGpio])
    /\ \A i \in 1..Len(trace) :
         trace[i].ev = "gpio" =>
             /\ trace[i].res = "reset" => reset_gpio
             /\ trace[i].res = "pwdn" => pwdn_gpio
             /\ last.op = "start_streaming" =>
                  /\ i > 4
                  /\ trace[4].ev = "enable"
                  /\ trace[4].res = "xclk"
                  /\ trace[4].ret = 0
C15_Witness_OnlyResetLinePresent ==
    /\ PowerOnOk
    /\ reset_gpio
    /\ ~pwdn_gpio
    /\ trace[5].res = "reset"
    /\ trace[6].ev = "usleep"
    /\ ret = 0

\* C16: power_off reports no failure and its calls are: drive the reset and
\* power-down lines (only those present), disable the clock, then disable
\* dovdd, avdd, dvdd (the reverse of the enable order); the operation that
\* called it returns the outcome of its last register write, whatever the
\* disables found.
C16_PowerOffSequence ==
    \A i \in 1..Len(trace) :
        (trace[i].ev = "disable" /\ trace[i].res = "xclk") =>
            /\ Len(trace) = i + 3
            /\ trace[i + 1].ev = "disable" /\ trace[i + 1].res = "dovdd"
            /\ trace[i + 2].ev = "disable" /\ trace[i + 2].res = "avdd"
            /\ trace[i + 3].ev = "disable" /\ trace[i + 3].res = "dvdd"
            /\ i - NumGpio > 1
            /\ \A j \in (i - NumGpio)..(i - 1) : trace[j].ev = "gpio"
            /\ \A l \in GpioLines :
                 (IF l = "reset" THEN reset_gpio ELSE pwdn_gpio) =>
                     \E j \in (i - NumGpio)..(i - 1) : trace[j].res = l
            /\ trace[i - NumGpio - 1].ev \in {"i2c_master_send", "store_streaming"}
            /\ \E w \in 1..(i - 1) :
                 /\ IsSend(trace[w])
                 /\ \A x \in (w + 1)..(i - 1) : ~IsSend(trace[x])
                 /\ ret = WriteRet(trace[w])
C16_Witness_UnbalancedDisablesNotReported ==
    /\ last.op = "stop_streaming"
    /\ reset_gpio
    /\ pwdn_gpio
    /\ Len(trace) = 8
    /\ trace[5].res = "xclk"
    /\ trace[8].res = "dvdd"
    /\ trace[8].val = 0
    /\ ret = 0

\* C17: a successful start_streaming issues, after power_on has completed,
\* exactly two register writes: 0x00 to 0x3000, then 0x01 to 0x0100; none
\* to a gain or exposure register; and the streaming flag is set only after
\* both writes succeeded (a failing call leaves the flag as it was).
C17_StartWritesThenFlag ==
    [][last'.op = "start_streaming" =>
          /\ ret' = 0 =>
               /\ Len(trace') = 8 + NumGpio
               /\ trace'[5 + NumGpio].ev = "usleep"
               /\ IsSend(trace'[6 + NumGpio])
               /\ trace'[6 + NumGpio].buf = <<48, 0, 0>>
               /\ trace'[6 + NumGpio].ret = 3
               /\ IsSend(trace'[7 + NumGpio])
               /\ trace'[7 + NumGpio].buf = <<1, 0, 1>>
               /\ trace'[7 + NumGpio].ret = 3
               /\ trace'[8 + NumGpio] =
                      [ev |-> "store_streaming", res |-> "", buf |-> <<>>,
                       val |-> 1, ret |-> 0]
               /\ streaming'
          /\ ret' # 0 =>
               /\ streaming' = streaming
               /\ \A i \in 1..Len(trace') : trace'[i].ev # "store_streaming"]_vars
C17_Witness_StartedWithStoredGain ==
    /\ last.op = "start_streaming"
    /\ ret = 0
    /\ streaming
    /\ ctrl_cur["V4L2_CID_ANALOGUE_GAIN"] = 500
    /\ Len(trace) = 8 + NumGpio
    /\ Cardinality({i \in 1..Len(trace) : IsSend(trace[i])}) = 2

\* C18: stop_streaming writes 0x00 to the mode-select register, then sets
\* the state to Idle, then runs power_off, in this order and also when the
\* write fails; it returns exactly the outcome of that write.
C18_StopSequence ==
    last.op = "stop_streaming" =>
        /\ Len(trace) = 6 + NumGpio
        /\ IsSend(trace[1])
        /\ trace[1].buf = <<1, 0, 0>>
        /\ trace[2] = [ev |-> "store_streaming", res |-> "", buf |-> <<>>,
                        val |-> 0, ret |-> 0]
        /\ \A i \in 3..(2 + NumGpio) : trace[i].ev = "gpio"
        /\ \A i \in (3 + NumGpio)..(6 + NumGpio) : trace[i].ev = "disable"
        /\ ~streaming
        /\ ret = IF trace[1].ret = 3 THEN 0
                 ELSE IF trace[1].ret < 0 THEN trace[1].ret ELSE -5
C18_Witness_StopAfterFailedWrite ==
    /\ last.op = "stop_streaming"
    /\ trace[1].ret = -110
    /\ ret = -110
    /\ trace[2].ev = "store_streaming"
    /\ trace[Len(trace)].ev = "disable"
    /\ trace[Len(trace)].val = 1
    /\ AllOff

\* C19: a failing start_streaming returns the error of the first step that
\* failed; when power_on failed it issues no register write and does not
\* run power_off after the rollback; when a register write failed it
\* returns that write's error, unchanged by the power_off that follows.
C19_StartReturnsFirstError ==
    (last.op = "start_streaming" /\ ret # 0) =>
        \/ /\ \E k \in 1..4 :
                 /\ FailedEnableAt(k)
                 /\ ret = trace[k].ret
                 /\ Len(trace) = 2 * k - 1
           /\ \A i \in 1..Len(trace) :
                 /\ ~IsSend(trace[i])
                 /\ trace[i].ev # "gpio"
                 /\ ~(trace[i].ev = "disable" /\ trace[i].res = "xclk")
        \/ /\ PowerOnOk
           /\ \E w \in (6 + NumGpio)..(7 + NumGpio) :
                 /\ IsSend(trace[w])
                 /\ trace[w].ret # 3
                 /\ ret = (IF trace[w].ret < 0 THEN trace[w].ret ELSE -5)
                 /\ \A x \in (6 + NumGpio)..(w - 1) :
                      IsSend(trace[x]) /\ trace[x].ret = 3
                 /\ \A x \in (w + 1)..Len(trace) : ~IsSend(trace[x])
                 /\ Len(trace) = w + NumGpio + 4
C19_Witness_ModeSelectWriteFailed ==
    /\ PowerOnOk
    /\ ret = -5
    /\ IsSend(trace[7 + NumGpio])
    /\ trace[7 + NumGpio].buf = <<1, 0, 1>>
    /\ trace[7 + NumGpio].ret = 1
    /\ trace[Len(trace)].res = "dvdd"

====
